---- MODULE Spec2Model ----
(***************************************************************************)
(* Model of cli/tools/info.rs: the `deno info` report of a module graph.   *)
(* Text mode is GraphDisplayContext::write (NpmInfo::build, into_writer,    *)
(* the recursive tree builders and print_tree_node); JSON mode is           *)
(* add_npm_packages_to_json.  The recursion of the tree builders is         *)
(* modelled by an explicit stack of pending children, processed depth       *)
(* first in the order the recursive calls are made.                         *)
(***************************************************************************)
EXTENDS Integers, Sequences, FiniteSets, TLC

VARIABLES
    mode,       \* info_flags.json: "text" or "json"
    graph,      \* the ModuleGraph (read only)
    snapshot,   \* the NpmResolutionSnapshot (read only)
    sizes,      \* CliNpmResolver::package_size, per package id (read only)
    json,       \* json!(graph): the serialized graph handed to JSON mode
    npm_info,   \* GraphDisplayContext.npm_info
    seen,       \* GraphDisplayContext.seen
    stack,      \* pending calls of build_resolved_info / build_npm_deps iterations
    tree,       \* the TreeNodes built so far, in preorder, each with its depth
    out,        \* the writer of the running report
    expanded,   \* how often each entity's children were built in this report
    reports,    \* the finished outputs, one per invocation
    pc

vars == <<mode, graph, snapshot, sizes, json, npm_info, seen, stack, tree, out,
          expanded, reports, pc>>

----------------------------------------------------------------------------
(* Bounds of the model *)

\* package ids are 1..NumPkgs, numbered in the order of NpmPackageId's Ord
NumPkgs == 3
\* most dependency edges of the root ESM module
MaxDeps == 2
\* most dependency edges of the snapshot's package graph
MaxPkgEdges == 2
\* byte sizes range over 1..MaxSize
MaxSize == 2
\* most records in the serialized modules list
MaxModules == 3
\* invocations of the report on the same inputs
MaxReports == 2

----------------------------------------------------------------------------
(* Specifiers, package ids and their string forms *)

SpecR == "file:///r.ts"
SpecA == "file:///a.ts"
SpecJ == "file:///j.json"
SpecX == "file:///x.ts"
SpecZ == "file:///z.ts"
SpecOld == "file:///old.ts"
NpmX == "npm:p1@1.0.0/x"
NpmY == "npm:p1@1.0.0/y"
Npm2 == "npm:p2@1.0.0"
NpmBad == "npm:"
ReqP1 == "npm:p1@^1"
ReqP9 == "npm:p9@^1"
RelA == "./a.ts"

Specifiers == {SpecR, SpecA, SpecJ, SpecX, SpecZ, SpecOld, NpmX, NpmY, Npm2}

PkgIds == 1..NumPkgs

NoPackage == 0

\* NpmPackageId::as_serialized: the id's string form
IdStrings == <<"p1@1.0.0", "p2@1.0.0", "p3@1.0.0", "p4@1.0.0", "p5@1.0.0">>

as_serialized(id) == IdStrings[id]

\* NpmPackageNvReference::from_str: the (name, version) of an npm specifier, 0 when
\* the specifier does not parse
NvReference_from_str(s) ==
    CASE s = NpmX -> 1
      [] s = NpmY -> 1
      [] s = Npm2 -> 2
      [] OTHER -> 0

\* NpmPackageReqReference::from_str: the requirement of an npm specifier, 0 when the
\* specifier does not parse
ReqReference_from_str(s) ==
    CASE s = ReqP1 -> 1
      [] s = NpmX -> 1
      [] s = NpmY -> 1
      [] s = Npm2 -> 2
      [] s = ReqP9 -> 9
      [] OTHER -> 0

----------------------------------------------------------------------------
(* Sequences of package ids *)

Min(S) == CHOOSE x \in S : \A y \in S : x <= y

RECURSIVE SumOver(_, _)
SumOver(S, f) ==
    IF S = {} THEN 0
    ELSE LET x == CHOOSE y \in S : TRUE IN f[x] + SumOver(S \ {x}, f)

Range(s) == {s[i] : i \in 1..Len(s)}

\* every order in which an iteration over a hash map's values can yield them
Values(S) ==
    {s \in [1..Cardinality(S) -> S] : Range(s) = S}

RECURSIVE Insert(_, _)
Insert(sorted, x) ==
    IF sorted = <<>> THEN <<x>>
    ELSE IF x <= Head(sorted) THEN <<x>> \o sorted
    ELSE <<Head(sorted)>> \o Insert(Tail(sorted), x)

\* Vec::sort over package ids
RECURSIVE Sort(_)
Sort(s) ==
    IF s = <<>> THEN <<>> ELSE Insert(Sort(Tail(s)), Head(s))

----------------------------------------------------------------------------
(* The module graph *)

ResNone == [t |-> "none", specifier |-> ""]
ResErr == [t |-> "err", specifier |-> ""]
ResOk(s) == [t |-> "ok", specifier |-> s]
\* maybe_types_dependency is None
NoTypes == [t |-> "absent", specifier |-> ""]

Dep(code, type) == [maybe_code |-> code, maybe_type |-> type]

NoCache == [local |-> FALSE, emit |-> FALSE, map |-> FALSE]

Slot(kind, s) ==
    [kind |-> kind, specifier |-> s, size |-> 0, types |-> NoTypes,
     dependencies |-> <<>>, nv |-> 0, cache |-> NoCache, err |-> ""]

Esm(s, size, types, deps) ==
    [Slot("esm", s) EXCEPT !.size = size, !.types = types, !.dependencies = deps]

Json(s, size) == [Slot("json", s) EXCEPT !.size = size]

Npm(s) == [Slot("npm", s) EXCEPT !.nv = NvReference_from_str(s)]

External(s) == Slot("external", s)

ErrSlot(s, err) == [Slot("error", s) EXCEPT !.err = err]

Absent(s) == Slot("absent", s)

ModuleKinds == {"esm", "json", "node", "npm", "external"}

\* ModuleGraph::resolve: follow the redirect recorded for the specifier
Resolve(g, s) == IF s \in DOMAIN g.redirects THEN g.redirects[s] ELSE s

\* ModuleGraph::try_get: the slot of the specifier (a module, an error, or absent)
TryGet(g, s) == IF s \in DOMAIN g.slots THEN g.slots[s] ELSE Absent(s)

\* ModuleGraph::modules: the specifiers whose slot holds a module
Modules(g) == {s \in DOMAIN g.slots : g.slots[s].kind \in ModuleKinds}

\* ModuleGraph::npm_packages: the (name, version) pairs of the graph's npm modules
NpmPackages(g) == {g.slots[s].nv : s \in {m \in Modules(g) : g.slots[m].kind = "npm"}}

----------------------------------------------------------------------------
(* The resolution snapshot *)

\* NpmResolutionSnapshot::resolve_package_from_deno_module: the id of the package
\* the snapshot holds for the (name, version), NoPackage for Err
ResolvePackageFromDenoModule(sn, nv) ==
    IF nv \in DOMAIN sn.packages THEN nv ELSE NoPackage

\* NpmResolutionSnapshot::package_from_id
PackageFromId(sn, id) == IF id \in DOMAIN sn.packages THEN id ELSE NoPackage

\* NpmResolutionSnapshot::resolve_pkg_from_pkg_req
ResolvePkgFromPkgReq(sn, req) ==
    IF req \in DOMAIN sn.package_reqs THEN sn.package_reqs[req] ELSE NoPackage

\* NpmResolutionSnapshot::all_packages_for_every_system
AllPackagesForEverySystem(sn) == DOMAIN sn.packages

----------------------------------------------------------------------------
(* NpmInfo: the package index of one report *)

\* package_size returned Err
Unknown == -1

\* a header printed without a size (a module shown before)
NotShown == -2

\* the empty HashMap
EmptyMap == [k \in {} |-> 0]

NpmInfoDefault ==
    [package_sizes |-> EmptyMap, resolved_ids |-> EmptyMap, packages |-> EmptyMap]

\* HashMap::insert
MapInsert(m, k, v) == (k :> v) @@ m

\* one order in which the hash map of a package yields its dependency ids
SomeOrder(S) == CHOOSE s \in Values(S) : TRUE

\* mutant: the dependencies of a package are not indexed
FillNoDependencies(info, ids, sn, sz) == info

RECURSIVE fill_package_info(_, _, _, _)
RECURSIVE FillDependencies(_, _, _, _)
\* NpmInfo::fill_package_info
fill_package_info(info, id, sn, sz) ==
    LET withPackage == [info EXCEPT !.packages = MapInsert(@, id, sn.packages[id])]
        withSize == IF sz[id] # Unknown
                    THEN [withPackage EXCEPT
                            !.package_sizes = MapInsert(@, id, sz[id])]
                    ELSE withPackage
    IN FillDependencies(withSize, SomeOrder(sn.packages[id].dependencies), sn, sz)

\* the loop of fill_package_info over package.dependencies.values()
FillDependencies(info, ids, sn, sz) ==
    IF ids = <<>> THEN info
    ELSE LET id == Head(ids)
             next == IF id \notin DOMAIN info.packages
                        /\ PackageFromId(sn, id) # NoPackage
                     THEN fill_package_info(info, id, sn, sz)
                     ELSE info
         IN FillDependencies(next, Tail(ids), sn, sz)

\* the order of ModuleGraph::modules (a BTreeMap keyed by specifier)
ModuleOrder == <<SpecA, SpecJ, SpecOld, SpecR, SpecX, SpecZ, NpmX, NpmY, Npm2>>

\* the body of the loop of NpmInfo::build for one module
BuildStep(info, module, sn, sz) ==
    IF module.kind # "npm" THEN info
    ELSE LET id == ResolvePackageFromDenoModule(sn, module.nv) IN
         IF id = NoPackage THEN info
         ELSE LET withId == [info EXCEPT
                               !.resolved_ids = MapInsert(@, module.nv, id)]
              IN IF id \notin DOMAIN withId.packages
                 THEN fill_package_info(withId, id, sn, sz)
                 ELSE withId

RECURSIVE BuildLoop(_, _, _, _, _)
BuildLoop(info, specs, g, sn, sz) ==
    IF specs = <<>> THEN info
    ELSE LET s == Head(specs)
             next == IF s \in Modules(g)
                     THEN BuildStep(info, g.slots[s], sn, sz)
                     ELSE info
         IN BuildLoop(next, Tail(specs), g, sn, sz)

\* NpmInfo::build
NpmInfoBuild(g, sn, sz) ==
    IF NpmPackages(g) = {} THEN NpmInfoDefault
    ELSE BuildLoop(NpmInfoDefault, ModuleOrder, g, sn, sz)

\* NpmInfo::resolve_package: the id of the indexed package of the (name, version)
resolve_package(info, nv) ==
    IF nv \in DOMAIN info.resolved_ids
       /\ info.resolved_ids[nv] \in DOMAIN info.packages
    THEN info.resolved_ids[nv]
    ELSE NoPackage

----------------------------------------------------------------------------
(* Tree nodes and the lines of the report *)

\* the text of a TreeNode
Text(prefix, s, style, size, star, tag) ==
    [prefix |-> prefix, s |-> s, style |-> style, size |-> size, star |-> star,
     tag |-> tag]

NoText == Text("", "", "plain", NotShown, FALSE, "")

\* a TreeNode at its depth; entity and via record what the node stands for
Node(depth, text, entity, via) ==
    [depth |-> depth, text |-> text, entity |-> entity, via |-> via]

\* a writeln! of into_writer
Line(tag, n) ==
    [tag |-> tag, n |-> n, msg |-> "", conn |-> <<>>, text |-> NoText]

\* a writeln! of print_tree_node
TreeLine(conn, text) ==
    [tag |-> "tree", n |-> 0, msg |-> "", conn |-> conn, text |-> text]

\* a pending call: build_resolved_info(res, type_dep), or one iteration of the loop
\* of build_npm_deps for the dependency id
ResItem(depth, res, type_dep) ==
    [t |-> "res", depth |-> depth, res |-> res, type_dep |-> type_dep, id |-> 0]

PkgItem(depth, id) ==
    [t |-> "pkg", depth |-> depth, res |-> ResNone, type_dep |-> FALSE, id |-> id]

----------------------------------------------------------------------------
(* The tree builders of GraphDisplayContext *)

\* every key the seen set can hold: specifiers and serialized package ids
Keys == Specifiers \cup {as_serialized(id) : id \in PkgIds}

\* maybe_size_to_text's argument for a package: package_sizes.get(id)
PackageSize(id) ==
    IF id \in DOMAIN npm_info.package_sizes THEN npm_info.package_sizes[id]
    ELSE Unknown

\* mutant: the dependency ids are not sorted
build_npm_deps_unsorted(vals, depth) ==
    [i \in 1..Len(vals) |-> PkgItem(depth, vals[i])]

\* the sorted dependency ids of build_npm_deps, as the pending iterations of its
\* loop; vals is package.dependencies.values() in the order the map yields them
build_npm_deps(vals, depth) ==
    LET deps == Sort(vals)
    IN [i \in 1..Len(deps) |-> PkgItem(depth, deps[i])]

\* mutant: a failed code resolution ends the dependency
build_dep_info_until_error(dep, depth) ==
    IF dep.maybe_code.t = "err" THEN <<ResItem(depth, dep.maybe_code, FALSE)>>
    ELSE (IF dep.maybe_code.t # "none"
          THEN <<ResItem(depth, dep.maybe_code, FALSE)>> ELSE <<>>)
         \o (IF dep.maybe_type.t # "none"
             THEN <<ResItem(depth, dep.maybe_type, TRUE)>> ELSE <<>>)

\* build_dep_info: the calls of build_resolved_info one dependency makes
build_dep_info(dep, depth) ==
    (IF dep.maybe_code.t # "none"
     THEN <<ResItem(depth, dep.maybe_code, FALSE)>> ELSE <<>>)
    \o (IF dep.maybe_type.t # "none"
        THEN <<ResItem(depth, dep.maybe_type, TRUE)>> ELSE <<>>)

RECURSIVE DependencyItems(_, _)
\* the loop of build_module_info over module.dependencies.values()
DependencyItems(deps, depth) ==
    IF deps = <<>> THEN <<>>
    ELSE build_dep_info(Head(deps), depth) \o DependencyItems(Tail(deps), depth)

\* the Specifier arm of build_module_info: the children of a module
ModuleItems(module, depth) ==
    IF module.kind # "esm" THEN <<>>
    ELSE (IF module.types.t # "absent"
          THEN <<ResItem(depth, module.types, TRUE)>> ELSE <<>>)
         \o DependencyItems(module.dependencies, depth)

\* build_module_info's package_or_specifier: the indexed package of an npm module,
\* NoPackage for Specifier
PackageOrSpecifier(module) ==
    IF module.kind = "npm" THEN resolve_package(npm_info, module.nv) ELSE NoPackage

\* the dependency ids build_module_info hands to build_npm_deps for the module
PackageDependencies(module) ==
    IF PackageOrSpecifier(module) # NoPackage
    THEN npm_info.packages[PackageOrSpecifier(module)].dependencies
    ELSE {}

\* mutant: build_module_info never finds the key in the set
ModuleNeverSeen(key) == FALSE

\* was_seen of build_module_info: the key was in the set before the insert
ModuleWasSeen(key) == key \in seen

\* build_module_info without its recursive calls: the node, the set after the
\* insert, and the calls that build the node's children
build_module_info(module, type_dep, depth, vals) ==
    LET package == PackageOrSpecifier(module)
        key == IF package # NoPackage THEN as_serialized(package)
               ELSE module.specifier
        was_seen == ModuleWasSeen(key)
        maybe_size == IF package # NoPackage THEN PackageSize(package)
                      ELSE IF module.kind \in {"esm", "json"} THEN module.size
                      ELSE Unknown
        header_text ==
            IF was_seen
            THEN Text("", module.specifier,
                      IF type_dep THEN "italic_gray" ELSE "gray", NotShown, TRUE, "")
            ELSE Text("", module.specifier,
                      IF type_dep THEN "italic" ELSE "plain", maybe_size, FALSE, "")
        children == IF was_seen THEN <<>>
                    ELSE IF package # NoPackage THEN build_npm_deps(vals, depth + 1)
                    ELSE ModuleItems(module, depth + 1)
    IN [node |-> Node(depth, header_text, key, "module"),
        seen |-> seen \cup {key},
        items |-> children,
        expand |-> IF was_seen THEN {} ELSE {key}]

\* build_error_info: the tag of the error
ErrorMsg(err) ==
    CASE err = "InvalidTypeAssertion" -> "(invalid import assertion)"
      [] err = "LoadingErr" -> "(loading error)"
      [] err = "ParseErr" -> "(parsing error)"
      [] err = "UnsupportedImportAssertionType" -> "(unsupported import assertion)"
      [] err = "UnsupportedMediaType" -> "(unsupported)"
      [] err \in {"Missing", "MissingDynamic"} -> "(missing)"
      [] OTHER -> "(resolution error)"

\* build_error_info
build_error_info(err, specifier, depth) ==
    [node |-> Node(depth, Text("", specifier, "red", NotShown, FALSE, ErrorMsg(err)),
                   specifier, "error"),
     seen |-> seen \cup {specifier},
     items |-> <<>>,
     expand |-> {}]

\* the leaf build_resolved_info makes of a node that needs no lookup
Leaf(depth, text, entity, via) ==
    [node |-> Node(depth, text, entity, via), seen |-> seen, items |-> <<>>,
     expand |-> {}]

\* build_resolved_info for a resolution that is not None
build_resolved_info(resolution, type_dep, depth, vals) ==
    IF resolution.t = "ok"
    THEN LET specifier == resolution.specifier
             resolved_specifier == Resolve(graph, specifier)
             slot == TryGet(graph, resolved_specifier)
         IN CASE slot.kind \in ModuleKinds ->
                     build_module_info(slot, type_dep, depth, vals)
              [] slot.kind = "error" ->
                     build_error_info(slot.err, resolved_specifier, depth)
              [] OTHER ->
                     Leaf(depth, Text("", specifier, "red", NotShown, FALSE, "(missing)"),
                          specifier, "missing")
    ELSE Leaf(depth,
              Text("", "resolution error", "italic", NotShown, FALSE, "(resolve error)"),
              "", "resolve_error")

\* the dependency ids of the package a resolution leads build_module_info to
ResolutionPackageDependencies(resolution) ==
    IF resolution.t = "ok"
       /\ TryGet(graph, Resolve(graph, resolution.specifier)).kind \in ModuleKinds
    THEN PackageDependencies(TryGet(graph, Resolve(graph, resolution.specifier)))
    ELSE {}

----------------------------------------------------------------------------
(* print_tree_node *)

SIBLING_CONNECTOR == "+"
LAST_SIBLING_CONNECTOR == "L"
CHILD_DEPS_CONNECTOR == "T"
CHILD_NO_DEPS_CONNECTOR == "-"
VERTICAL_CONNECTOR == "|"
EMPTY_CONNECTOR == " "

\* the nodes after i that are no deeper than node i
NoDeeperAfter(t, i) == {j \in (i + 1)..Len(t) : t[j].depth <= t[i].depth}

\* index + 1 == child_len: node i is the last child of its parent
IsLast(t, i) ==
    NoDeeperAfter(t, i) = {} \/ t[Min(NoDeeperAfter(t, i))].depth < t[i].depth

\* child.children.is_empty()
ChildrenIsEmpty(t, i) == i = Len(t) \/ t[i + 1].depth # t[i].depth + 1

\* the ancestor of node i at depth d (node i itself at its own depth)
Ancestor(t, i, d) == CHOOSE j \in 1..i :
    /\ t[j].depth = d
    /\ \A k \in (j + 1)..i : t[k].depth > d

\* the prefix print_children was called with for the siblings of node i: one
\* connector per ancestor (each followed by EMPTY_CONNECTOR in the output)
Prefix(t, i) ==
    [d \in 1..(t[i].depth - 1) |->
        IF IsLast(t, Ancestor(t, i, d)) THEN EMPTY_CONNECTOR ELSE VERTICAL_CONNECTOR]

\* the lines print_tree_node writes for the tree
print_tree_node(t) ==
    [i \in 1..Len(t) |->
        IF t[i].depth = 0 THEN TreeLine(<<>>, t[i].text)
        ELSE TreeLine(Prefix(t, i)
                      \o <<IF IsLast(t, i) THEN LAST_SIBLING_CONNECTOR
                           ELSE SIBLING_CONNECTOR,
                           IF ChildrenIsEmpty(t, i) THEN CHILD_NO_DEPS_CONNECTOR
                           ELSE CHILD_DEPS_CONNECTOR>>,
                      t[i].text)]

----------------------------------------------------------------------------
(* GraphDisplayContext::write and into_writer *)

\* the sizes into_writer sums over graph.modules()
ModuleSizes(g) ==
    [s \in Modules(g) |->
        IF g.slots[s].kind \in {"esm", "json"} THEN g.slots[s].size ELSE 0]

total_modules_size(g) == SumOver(Modules(g), ModuleSizes(g))

\* mutant: only the packages the npm modules resolve to are summed
total_direct_package_size(info) ==
    SumOver({id \in DOMAIN info.package_sizes :
                \E nv \in DOMAIN info.resolved_ids : info.resolved_ids[nv] = id},
            info.package_sizes)

total_npm_package_size(info) ==
    SumOver(DOMAIN info.package_sizes, info.package_sizes)

total_size(g, info) == total_modules_size(g) + total_npm_package_size(info)

\* dep_count of into_writer, evaluated left to right
dep_count(g, info) ==
    ((Cardinality(Modules(g)) - 1) + Cardinality(DOMAIN info.packages))
    - Cardinality(DOMAIN info.resolved_ids)

\* mutant: the resolved ids are subtracted before the packages are added
dep_count_steps_resolved_first(g, info) ==
    <<Cardinality(Modules(g)) - 1,
      (Cardinality(Modules(g)) - 1) - Cardinality(DOMAIN info.resolved_ids),
      ((Cardinality(Modules(g)) - 1) - Cardinality(DOMAIN info.resolved_ids))
      + Cardinality(DOMAIN info.packages)>>

\* the values the usize expression of dep_count takes, step by step, as integers
\* without a width: a value below zero is an underflow of the usize
dep_count_steps(g, info) ==
    <<Cardinality(Modules(g)) - 1,
      (Cardinality(Modules(g)) - 1) + Cardinality(DOMAIN info.packages),
      ((Cardinality(Modules(g)) - 1) + Cardinality(DOMAIN info.packages))
      - Cardinality(DOMAIN info.resolved_ids)>>

\* the lines into_writer writes before the tree for the root module
Summary(root) ==
    (IF root.kind \in {"esm", "json"} /\ root.cache.local
     THEN <<Line("local:", 0)>> ELSE <<>>)
    \o (IF root.kind \in {"esm", "json"} /\ root.cache.emit
        THEN <<Line("emit:", 0)>> ELSE <<>>)
    \o (IF root.kind \in {"esm", "json"} /\ root.cache.map
        THEN <<Line("map:", 0)>> ELSE <<>>)
    \o (IF root.kind = "esm" THEN <<Line("type:", 0)>> ELSE <<>>)
    \o <<Line("dependencies:", dep_count(graph, npm_info)),
         Line("size:", total_size(graph, npm_info)),
         Line("", 0)>>

\* mutant: the error line is followed by the summary
RootErrorThenSummary(msg) ==
    <<[Line("error:", 0) EXCEPT !.msg = msg], Line("dependencies:", 0),
      Line("size:", 0)>>

\* the writer after a report that builds no tree
RootError(msg) == <<[Line("error:", 0) EXCEPT !.msg = msg]>>

\* the effect of one builder call on the context
Built(b) ==
    /\ tree' = Append(tree, b.node)
    /\ seen' = b.seen
    /\ stack' = b.items \o Tail(stack)
    /\ expanded' = [k \in Keys |-> expanded[k] + IF k \in b.expand THEN 1 ELSE 0]

\* GraphDisplayContext::write up to the call of into_writer
Write ==
    /\ pc = "idle"
    /\ mode = "text"
    /\ Len(reports) < MaxReports
    /\ npm_info' = NpmInfoBuild(graph, snapshot, sizes)
    /\ seen' = {}
    /\ stack' = <<>>
    /\ tree' = <<>>
    /\ out' = <<>>
    /\ expanded' = [k \in Keys |-> 0]
    /\ pc' = "into_writer"
    /\ UNCHANGED <<mode, graph, snapshot, sizes, json, reports>>

\* into_writer returning after a single error line
WriteError(msg) ==
    /\ out' = RootError(msg)
    /\ reports' = Append(reports, RootError(msg))
    /\ pc' = "idle"
    /\ UNCHANGED <<mode, graph, snapshot, sizes, json, npm_info, seen, stack, tree,
                   expanded>>

\* into_writer up to the root's build_module_info
IntoWriter ==
    /\ pc = "into_writer"
    /\ IF Len(graph.roots) = 0 \/ Len(graph.roots) > 1
       THEN WriteError("displaying graphs that have multiple roots is not supported.")
       ELSE LET root_specifier == Resolve(graph, graph.roots[1])
                root == TryGet(graph, root_specifier)
            IN CASE root.kind \in ModuleKinds ->
                     \E vals \in Values(PackageDependencies(root)) :
                         LET b == build_module_info(root, FALSE, 0, vals) IN
                         /\ out' = Summary(root)
                         /\ tree' = <<b.node>>
                         /\ seen' = b.seen
                         /\ stack' = b.items
                         /\ expanded' = [k \in Keys |->
                                expanded[k] + IF k \in b.expand THEN 1 ELSE 0]
                         /\ pc' = "build"
                         /\ UNCHANGED <<mode, graph, snapshot, sizes, json, npm_info,
                                        reports>>
                 [] root.kind = "error" ->
                     IF root.err = "Missing"
                     THEN WriteError("module could not be found")
                     ELSE WriteError(root.err)
                 [] OTHER -> WriteError("an internal error occurred")

\* one call of build_resolved_info
BuildResolvedInfo ==
    /\ pc = "build"
    /\ stack # <<>>
    /\ Head(stack).t = "res"
    /\ LET top == Head(stack) IN
       IF top.res.t = "none"
       THEN /\ stack' = Tail(stack)
            /\ UNCHANGED <<tree, seen, expanded>>
       ELSE \E vals \in Values(ResolutionPackageDependencies(top.res)) :
                Built(build_resolved_info(top.res, top.type_dep, top.depth, vals))
    /\ UNCHANGED <<mode, graph, snapshot, sizes, json, npm_info, out, reports, pc>>

\* mutant: build_npm_deps never finds the key in the set
PackageNeverSeen(key) == FALSE

\* was_seen of build_npm_deps
PackageWasSeen(key) == key \in seen

\* the body of the loop of build_npm_deps for dep_id, without its recursive call
npm_dep_child(dep_id, depth, vals) ==
    LET text == Text("npm:", as_serialized(dep_id), "plain", PackageSize(dep_id),
                     FALSE, "")
        indexed == dep_id \in DOMAIN npm_info.packages
        has_deps == indexed /\ npm_info.packages[dep_id].dependencies # {}
        key == as_serialized(npm_info.packages[dep_id].id)
    IN IF ~has_deps
       THEN Leaf(depth, text, as_serialized(dep_id), "npm_dep")
       ELSE IF PackageWasSeen(key)
            THEN Leaf(depth, [text EXCEPT !.star = TRUE], key, "npm_dep")
            ELSE [node |-> Node(depth, text, key, "npm_dep"),
                  seen |-> seen \cup {key},
                  items |-> build_npm_deps(vals, depth + 1),
                  expand |-> {key}]

\* the dependency ids build_npm_deps recurses into for dep_id
ChildDependencies(dep_id) ==
    IF dep_id \in DOMAIN npm_info.packages
    THEN npm_info.packages[dep_id].dependencies
    ELSE {}

\* one iteration of the loop of build_npm_deps
BuildNpmDeps ==
    /\ pc = "build"
    /\ stack # <<>>
    /\ Head(stack).t = "pkg"
    /\ \E vals \in Values(ChildDependencies(Head(stack).id)) :
           Built(npm_dep_child(Head(stack).id, Head(stack).depth, vals))
    /\ UNCHANGED <<mode, graph, snapshot, sizes, json, npm_info, out, reports, pc>>

\* print_tree_node on the finished root node, and the return of write
PrintTreeNode ==
    /\ pc = "build"
    /\ stack = <<>>
    /\ out' = out \o print_tree_node(tree)
    /\ reports' = Append(reports, out \o print_tree_node(tree))
    /\ pc' = "idle"
    /\ UNCHANGED <<mode, graph, snapshot, sizes, json, npm_info, seen, stack, tree,
                   expanded>>

----------------------------------------------------------------------------
(* add_npm_packages_to_json *)

\* serde_json's Value::get on an object: Null when the key is missing
Null == "null"

Get(obj, key) == IF key \in DOMAIN obj THEN obj[key] ELSE Null

\* serde_json's Map::insert
JsonInsert(obj, key, value) == (key :> value) @@ obj

\* the package name and version of an id
IdName == <<"p1", "p2", "p3", "p4", "p5">>
IdVersion == <<"1.0.0", "1.0.0", "1.0.0", "1.0.0", "1.0.0">>

\* the single-module branch: the record with the package its specifier resolves to
AnnotateModule(module, sn) ==
    LET nv == IF Get(module, "specifier") = Null THEN 0
              ELSE NvReference_from_str(module.specifier)
        pkg == IF nv = 0 THEN NoPackage ELSE ResolvePackageFromDenoModule(sn, nv)
    IN IF pkg # NoPackage
       THEN JsonInsert(module, "npmPackage", as_serialized(pkg))
       ELSE module

\* Vec::remove
Remove(modules, i) ==
    [j \in 1..(Len(modules) - 1) |-> IF j < i THEN modules[j] ELSE modules[j + 1]]

\* mutant: "external" records are kept
IsNpmPlaceholder(module) == Get(module, "kind") = "npm"

\* the test of the removal loop
IsPlaceholder(module) == Get(module, "kind") \in {"npm", "external"}

RECURSIVE RemoveLoop(_, _)
\* the loop for i in (0..modules.len()).rev() from index i down
RemoveLoop(modules, i) ==
    IF i = 0 THEN modules
    ELSE RemoveLoop(IF IsPlaceholder(modules[i]) THEN Remove(modules, i) ELSE modules,
                    i - 1)

\* the dependency entry with the package its specifier resolves to
AnnotateDependency(dep, sn) ==
    LET req == IF Get(dep, "specifier") = Null THEN 0
               ELSE ReqReference_from_str(dep.specifier)
        pkg == IF req = 0 THEN NoPackage ELSE ResolvePkgFromPkgReq(sn, req)
    IN IF pkg # NoPackage
       THEN JsonInsert(dep, "npmPackage", as_serialized(pkg))
       ELSE dep

\* the loop over modules.iter_mut()
AnnotateDependencies(modules, sn) ==
    [i \in 1..Len(modules) |->
        IF "dependencies" \in DOMAIN modules[i]
        THEN [modules[i] EXCEPT !.dependencies =
                [k \in 1..Len(@) |-> AnnotateDependency(@[k], sn)]]
        ELSE modules[i]]

\* mutant: the single-module branch is never taken
AugmentModulesFilterOnly(modules, sn) ==
    AnnotateDependencies(RemoveLoop(modules, Len(modules)), sn)

\* the modules list after the pass
AugmentModules(modules, sn) ==
    AnnotateDependencies(
        IF Len(modules) = 1 /\ Get(modules[1], "kind") = "npm"
        THEN <<AnnotateModule(modules[1], sn)>>
        ELSE RemoveLoop(modules, Len(modules)),
        sn)

\* mutant: the dependency ids are not sorted
RegistryDependenciesUnsorted(vals) ==
    [i \in 1..Len(vals) |-> as_serialized(vals[i])]

\* the dependencies list of one registry entry; vals is pkg.dependencies.values()
RegistryDependencies(vals) ==
    LET deps == Sort(vals) IN [i \in 1..Len(deps) |-> as_serialized(deps[i])]

\* json_packages; order[id] is the order the dependency map of id yields its values
NpmPackagesRegistry(sn, order) ==
    [key \in {as_serialized(id) : id \in AllPackagesForEverySystem(sn)} |->
        LET id == CHOOSE i \in AllPackagesForEverySystem(sn) : as_serialized(i) = key
        IN [name |-> IdName[id], version |-> IdVersion[id],
            dependencies |-> RegistryDependencies(order[id])]]

\* add_npm_packages_to_json
add_npm_packages_to_json(doc, sn, order) ==
    JsonInsert(
        IF "modules" \in DOMAIN doc
        THEN [doc EXCEPT !.modules = AugmentModules(@, sn)]
        ELSE doc,
        "npmPackages", NpmPackagesRegistry(sn, order))

\* the orders in which the dependency maps of the snapshot can yield their values
HashOrders(sn) ==
    {o \in [DOMAIN sn.packages ->
              UNION {Values(sn.packages[id].dependencies) : id \in DOMAIN sn.packages}] :
        \A id \in DOMAIN sn.packages : o[id] \in Values(sn.packages[id].dependencies)}

\* info with the json flag: json!(graph), add_npm_packages_to_json, write to stdout
AddNpmPackagesToJson ==
    /\ pc = "idle"
    /\ mode = "json"
    /\ Len(reports) < MaxReports
    /\ \E order \in HashOrders(snapshot) :
           reports' = Append(reports, add_npm_packages_to_json(json, snapshot, order))
    /\ UNCHANGED <<mode, graph, snapshot, sizes, json, npm_info, seen, stack, tree,
                   out, expanded, pc>>

----------------------------------------------------------------------------
(* The inputs: graphs, snapshots, package sizes and serialized graphs *)

Pkg(id, deps) == [id |-> id, dependencies |-> deps]

\* the snapshot holding the packages of present with the dependency edges
Snapshot(present, edges) ==
    [packages |->
        [id \in present |-> Pkg(id, {e[2] : e \in {x \in edges : x[1] = id}})],
     package_reqs |-> [req \in present \cap {1, 2} |-> req]]

RootCache == [local |-> TRUE, emit |-> TRUE, map |-> FALSE]

RootEsm(size, types, deps) ==
    [Esm(SpecR, size, types, deps) EXCEPT !.cache = RootCache]

\* the graph of the root module, SpecA, the data module, SpecX and the npm modules;
\* SpecOld redirects to SpecA and SpecZ is not in the graph
Graph(roots, r, a, x, npms) ==
    [roots |-> roots,
     redirects |-> (SpecOld :> SpecA),
     slots |-> (SpecR :> r) @@ (SpecA :> a) @@ (SpecJ :> Json(SpecJ, 4))
               @@ (SpecX :> x) @@ [s \in npms |-> Npm(s)]]

To(s) == Dep(ResOk(s), ResNone)

\* the dependency edges the root module is given
DepChoices ==
    {To(SpecA), To(SpecR), To(NpmX), To(SpecX), To(SpecZ),
     Dep(ResErr, ResOk(SpecA)), Dep(ResNone, ResOk(SpecJ)),
     Dep(ResOk(SpecOld), ResOk(NpmY))}

DepLists == UNION {[1..n -> DepChoices] : n \in 0..MaxDeps}

TypesChoices == {NoTypes, ResNone, ResOk(SpecA)}

AChoices ==
    {Esm(SpecA, 2, NoTypes, <<>>),
     Esm(SpecA, 2, NoTypes, <<To(SpecR)>>),
     Esm(SpecA, 2, NoTypes, <<Dep(ResOk(SpecA), ResOk(NpmX))>>),
     Json(SpecA, 2),
     ErrSlot(SpecA, "ParseErr")}

BaseSnapshot == Snapshot({1, 2}, {<<1, 2>>, <<2, 1>>})

BaseSizes == [id \in PkgIds |-> 2 ^ (id + 2)]

BaseA == Esm(SpecA, 2, NoTypes, <<To(SpecR)>>)

BaseX == ErrSlot(SpecX, "Missing")

EmptyDoc == [roots |-> <<>>]

TextInput(g, sn, sz) ==
    [mode |-> "text", graph |-> g, snapshot |-> sn, sizes |-> sz, json |-> EmptyDoc]

ModuleInput(types, deps, a) ==
    TextInput(Graph(<<SpecR>>, RootEsm(1, types, deps), a, BaseX, {NpmX, NpmY}),
              BaseSnapshot, BaseSizes)

\* the shapes of SpecA that import: back to the root, and itself with NpmX for types
ImportingAChoices == {a \in AChoices : a.kind = "esm" /\ a.dependencies # <<>>}

\* module graphs of every shape over a fixed snapshot: every dependency list of the
\* root over an importing SpecA, and every type-declaration edge and every shape of
\* SpecA with at most one dependency of the root
ModuleInputs ==
    {ModuleInput(NoTypes, deps, a) : deps \in DepLists, a \in ImportingAChoices}
    \cup {ModuleInput(types, deps, a) :
            types \in TypesChoices, deps \in [1..1 -> DepChoices] \cup {<<>>},
            a \in AChoices}

EdgeSets == {E \in SUBSET (PkgIds \X PkgIds) : Cardinality(E) <= MaxPkgEdges}

Snapshots ==
    {Snapshot(present, edges) :
        present \in {PkgIds, PkgIds \ {NumPkgs}},
        edges \in EdgeSets}

NpmChoices == {{}, {NpmX, NpmY}, {NpmX, Npm2}}

\* the dependency list importing every npm module of the set, in specifier order
ToAll(npms) ==
    SelectSeq(<<To(NpmX), To(NpmY), To(Npm2)>>,
              LAMBDA d : d.maybe_code.specifier \in npms)

\* package graphs of every shape under a root importing the npm modules
PackageInputs ==
    {TextInput(Graph(<<SpecR>>, RootEsm(1, NoTypes, ToAll(npms) \o <<To(SpecA)>>),
                     BaseA, BaseX, npms),
               sn, BaseSizes) :
        npms \in NpmChoices, sn \in Snapshots}

SizeTables == [PkgIds -> {Unknown} \cup 1..MaxSize]

\* sizes of every value over a fixed graph and a snapshot with an unreachable package
SizeInputs ==
    {TextInput(Graph(<<SpecR>>, RootEsm(size, NoTypes, <<To(NpmX), To(SpecA)>>),
                     BaseA, BaseX, {NpmX}),
               Snapshot(PkgIds, {<<1, 2>>}), sz) :
        size \in 1..MaxSize, sz \in SizeTables}

RootChoices ==
    {<<>>, <<SpecR, SpecA>>, <<SpecR>>, <<SpecA>>, <<SpecJ>>, <<SpecOld>>, <<NpmX>>,
     <<SpecX>>, <<SpecZ>>}

ErrChoices ==
    {"InvalidTypeAssertion", "LoadingErr", "ParseErr", "UnsupportedImportAssertionType",
     "UnsupportedMediaType", "Missing", "MissingDynamic", "ResolutionError"}

\* roots of every kind, and errors of every kind in the slot of SpecX
RootInputs ==
    {TextInput(Graph(roots, RootEsm(1, NoTypes, <<To(SpecX), To(NpmX)>>), BaseA,
                     ErrSlot(SpecX, err), {NpmX}),
               BaseSnapshot, BaseSizes) :
        roots \in RootChoices, err \in ErrChoices}

\* the graph that holds nothing but the npm modules, rooted at NpmX
NpmGraph(npms) ==
    [Graph(<<NpmX>>, Absent(SpecR), Absent(SpecA), Absent(SpecX), npms)
        EXCEPT !.slots[SpecJ] = Absent(SpecJ)]

\* dependency edges in a chain, in a cycle and into the last package
NpmRootEdges ==
    {{}, {<<1, 2>>, <<2, 1>>}, {<<1, 2>>, <<2, NumPkgs>>}, {<<1, NumPkgs>>, <<NumPkgs, 2>>}}

\* graphs of npm modules only, under snapshots that hold any subset of the packages:
\* npm modules the snapshot does not resolve, and dependency ids it does not know
NpmRootInputs ==
    {TextInput(NpmGraph(npms), Snapshot(present, edges), BaseSizes) :
        npms \in {{NpmX}, {NpmX, NpmY}, {NpmX, Npm2}, {NpmX, NpmY, Npm2}},
        present \in SUBSET PkgIds,
        edges \in NpmRootEdges}

TextInputs ==
    ModuleInputs \cup PackageInputs \cup SizeInputs \cup RootInputs \cup NpmRootInputs

\* json!(module): an npm or external module serializes to its kind and specifier,
\* an ESM module also to its dependency entries, a module error to no kind
ModuleRecords ==
    {[kind |-> "npm", specifier |-> NpmX],
     [kind |-> "npm", specifier |-> NpmBad],
     [kind |-> "external", specifier |-> SpecX],
     [kind |-> "esm", specifier |-> SpecR,
      dependencies |-> <<[specifier |-> ReqP1], [specifier |-> RelA]>>],
     [kind |-> "esm", specifier |-> SpecA,
      dependencies |-> <<[specifier |-> ReqP9], [code |-> SpecA], [specifier |-> Npm2]>>],
     [specifier |-> SpecZ, error |-> "not found"]}

ModuleLists == UNION {[1..n -> ModuleRecords] : n \in 0..MaxModules}

Docs ==
    {[roots |-> roots, modules |-> modules] :
        roots \in {<<SpecR>>, <<SpecR, SpecA>>}, modules \in ModuleLists}
    \cup {[roots |-> <<SpecR>>]}

JsonSnapshots ==
    {Snapshot({}, {}), Snapshot({2}, {}),
     Snapshot(PkgIds, {<<1, 3>>, <<1, 2>>, <<3, 1>>})}

JsonInputs ==
    {[mode |-> "json", graph |-> Graph(<<SpecR>>, RootEsm(1, NoTypes, <<>>), BaseA,
                                        BaseX, {}),
      snapshot |-> sn, sizes |-> BaseSizes, json |-> doc] :
        doc \in Docs, sn \in JsonSnapshots}

Inputs == TextInputs \cup JsonInputs

----------------------------------------------------------------------------
(* The specification *)

Init ==
    /\ \E input \in Inputs :
        /\ mode = input.mode
        /\ graph = input.graph
        /\ snapshot = input.snapshot
        /\ sizes = input.sizes
        /\ json = input.json
    /\ npm_info = NpmInfoDefault
    /\ seen = {}
    /\ stack = <<>>
    /\ tree = <<>>
    /\ out = <<>>
    /\ expanded = [k \in Keys |-> 0]
    /\ reports = <<>>
    /\ pc = "idle"

Next ==
    \/ Write
    \/ IntoWriter
    \/ BuildResolvedInfo
    \/ BuildNpmDeps
    \/ PrintTreeNode
    \/ AddNpmPackagesToJson

Spec == Init /\ [][Next]_vars

----------------------------------------------------------------------------
(* Reading a finished report *)

\* a text report has returned and its tree is still in the context
TreeFinished == mode = "text" /\ pc = "idle" /\ tree # <<>>

\* the last node of the subtree of node i
SubtreeEnd(t, i) ==
    IF NoDeeperAfter(t, i) = {} THEN Len(t) ELSE Min(NoDeeperAfter(t, i)) - 1

RECURSIVE Ascending(_)
\* the numbers of a set in ascending order
Ascending(S) ==
    IF S = {} THEN <<>> ELSE <<Min(S)>> \o Ascending(S \ {Min(S)})

\* the children of node i, in order
Children(t, i) ==
    Ascending({j \in (i + 1)..SubtreeEnd(t, i) : t[j].depth = t[i].depth + 1})

IsPackageKey(key) == \E id \in PkgIds : as_serialized(id) = key

PackageOfKey(key) == CHOOSE id \in PkgIds : as_serialized(id) = key

\* the entity a module stands for: the package the snapshot resolves an npm module
\* to, else the module itself
EntityOf(module) ==
    IF module.kind = "npm" /\ module.nv \in DOMAIN snapshot.packages
    THEN as_serialized(module.nv)
    ELSE module.specifier

\* the resolutions of an ESM module that are not None, in the order of its edges
RECURSIVE EdgeResolutions(_)
EdgeResolutions(deps) ==
    IF deps = <<>> THEN <<>>
    ELSE (IF Head(deps).maybe_code.t # "none"
          THEN <<[res |-> Head(deps).maybe_code, type_dep |-> FALSE]>> ELSE <<>>)
         \o (IF Head(deps).maybe_type.t # "none"
             THEN <<[res |-> Head(deps).maybe_type, type_dep |-> TRUE]>> ELSE <<>>)
         \o EdgeResolutions(Tail(deps))

Resolutions(module) ==
    IF module.kind # "esm" THEN <<>>
    ELSE (IF module.types.t \in {"ok", "err"}
          THEN <<[res |-> module.types, type_dep |-> TRUE]>> ELSE <<>>)
         \o EdgeResolutions(module.dependencies)

\* the module an Ok resolution leads to
Target(res) == TryGet(graph, Resolve(graph, res.specifier))

\* the entities one step from an entity: the modules its edges resolve to, or the
\* packages it depends on
EntityChildren(key) ==
    IF IsPackageKey(key)
    THEN IF PackageOfKey(key) \in DOMAIN snapshot.packages
         THEN {as_serialized(d) : d \in snapshot.packages[PackageOfKey(key)].dependencies}
         ELSE {}
    ELSE {EntityOf(Target(r.res)) :
            r \in {x \in Range(Resolutions(graph.slots[key])) :
                     x.res.t = "ok" /\ Target(x.res).kind \in ModuleKinds}}

RECURSIVE Closure(_)
Closure(S) ==
    LET next == S \cup UNION {EntityChildren(k) : k \in S}
    IN IF next = S THEN S ELSE Closure(next)

\* the module the single root resolves to
RootModule == TryGet(graph, Resolve(graph, graph.roots[1]))

\* every entity reachable from the root
ReachableEntities == Closure({EntityOf(RootModule)})

\* the entity is a package with dependencies, or a module
HasChildrenToBuild(key) ==
    IF IsPackageKey(key)
    THEN PackageOfKey(key) \in DOMAIN snapshot.packages
         /\ snapshot.packages[PackageOfKey(key)].dependencies # {}
    ELSE TRUE

\* the most children one builder call can push
Fanout ==
    NumPkgs + 2 + 2 * Len(graph.slots[SpecR].dependencies)
    + 2 * Len(graph.slots[SpecA].dependencies)

\* a variant of the traversal: falls with every builder call
Measure == (Fanout + 1) * Cardinality(Keys \ seen) + Len(stack)

----------------------------------------------------------------------------
(* C1 *)

\* C1: tree construction terminates (every builder call lowers Measure, a natural
\* number, and a call is enabled until the report returns), no entity has its
\* children built twice, and when the report has returned every entity reachable
\* from the root that has children to build (a module, or a package with
\* dependencies) has had them built exactly once and no other entity any.
C1_TerminatesExpandingOnce ==
    /\ [][pc = "build" /\ pc' = "build" => Measure' < Measure]_vars
    /\ [](pc \in {"into_writer", "build"}
            => ENABLED (IntoWriter \/ BuildResolvedInfo \/ BuildNpmDeps \/ PrintTreeNode))
    /\ [](\A k \in Keys : expanded[k] <= 1)
    /\ [](TreeFinished =>
            \A k \in Keys :
                /\ k \in ReachableEntities /\ HasChildrenToBuild(k) => expanded[k] = 1
                /\ k \notin ReachableEntities => expanded[k] = 0)

\* a report has returned whose tree shows a module and a package a second time
C1_Witness ==
    /\ TreeFinished
    /\ \E i \in DOMAIN tree : tree[i].via = "module" /\ tree[i].text.star
    /\ \E i \in DOMAIN tree : tree[i].via = "npm_dep" /\ tree[i].text.star

----------------------------------------------------------------------------
(* C2 *)

\* node i is an appearance of a module or of a package
IsAppearance(i) == tree[i].via \in {"module", "npm_dep"}

\* node i has an earlier appearance of the same entity
AppearedBefore(i) ==
    \E j \in 1..(i - 1) : IsAppearance(j) /\ tree[j].entity = tree[i].entity

\* C2 as claimed: every appearance of a module or package after its first is a
\* childless leaf marked *, whether or not the entity has dependencies.
C2_EveryRepeatIsMarked ==
    \A i \in DOMAIN tree :
        IsAppearance(i) /\ AppearedBefore(i)
            => tree[i].text.star /\ ChildrenIsEmpty(tree, i)

\* the appearance puts the entity in the seen set: any module, and a package with
\* dependencies reached as a dependency
Records(i) ==
    \/ tree[i].via = "module"
    \/ tree[i].via = "npm_dep" /\ HasChildrenToBuild(tree[i].entity)

RecordedBefore(i) ==
    \E j \in 1..(i - 1) : Records(j) /\ tree[j].entity = tree[i].entity

\* C2 amended: an appearance of a module, or of a package with dependencies reached
\* as a dependency, is marked * exactly when an earlier such appearance of the same
\* entity exists, and a marked node is a childless leaf; a package without
\* dependencies reached as a dependency is an unmarked childless leaf at every
\* appearance.
C2_RecordedRepeatIsMarked ==
    \A i \in DOMAIN tree :
        IsAppearance(i) =>
            IF Records(i)
            THEN /\ tree[i].text.star <=> RecordedBefore(i)
                 /\ tree[i].text.star => ChildrenIsEmpty(tree, i)
            ELSE ~tree[i].text.star /\ ChildrenIsEmpty(tree, i)

\* a finished tree that shows a package without dependencies twice, unmarked, and a
\* module a second time, marked
C2_Witness ==
    /\ TreeFinished
    /\ \E i \in DOMAIN tree :
        /\ tree[i].via = "npm_dep"
        /\ ~Records(i)
        /\ AppearedBefore(i)
    /\ \E i \in DOMAIN tree :
        tree[i].via = "module" /\ tree[i].text.star /\ RecordedBefore(i)

----------------------------------------------------------------------------
(* C3 *)

\* the packages the snapshot resolves the graph's npm modules to
DirectPackages ==
    {graph.slots[s].nv :
        s \in {m \in Modules(graph) :
                 /\ graph.slots[m].kind = "npm"
                 /\ graph.slots[m].nv \in DOMAIN snapshot.packages}}

RECURSIVE PackageClosure(_)
PackageClosure(S) ==
    LET next == S \cup (UNION {snapshot.packages[id].dependencies : id \in S}
                        \cap DOMAIN snapshot.packages)
    IN IF next = S THEN S ELSE PackageClosure(next)

\* the packages reachable from the package-reference modules of the graph
ReachablePackages == PackageClosure(DirectPackages)

SourceModules ==
    {s \in Modules(graph) : graph.slots[s].kind \in {"esm", "json"}}

\* the sum the claim states
StatedTotal ==
    SumOver(SourceModules, [s \in SourceModules |-> graph.slots[s].size])
    + SumOver({id \in ReachablePackages : sizes[id] # Unknown}, sizes)

\* the number on the line of the finished report with the tag
Reported(tag) ==
    LET report == reports[Len(reports)]
    IN report[CHOOSE i \in DOMAIN report : report[i].tag = tag].n

\* C3: the total a finished report prints is the sum of the sizes of the ESM and JSON
\* modules plus the sizes of the packages reachable from the graph's npm modules, each
\* once, and is the same under any other size of a package that is not reachable.
C3_TotalSize ==
    TreeFinished =>
        /\ Reported("size:") = StatedTotal
        /\ \A id \in PkgIds \ ReachablePackages :
            \A size \in {Unknown} \cup 1..(MaxSize + 1) :
                total_size(graph,
                           NpmInfoBuild(graph, snapshot, [sizes EXCEPT ![id] = size]))
                = Reported("size:")

\* a finished report of a graph with two npm modules of one package, a package
\* reached over two edges, and a sized package that is not reachable
C3_Witness ==
    /\ TreeFinished
    /\ {NpmX, NpmY} \subseteq Modules(graph)
    /\ 1 \in DOMAIN snapshot.packages
    /\ \E id \in ReachablePackages :
        Cardinality({p \in ReachablePackages :
                        id \in snapshot.packages[p].dependencies}) = 2
    /\ \E id \in DOMAIN snapshot.packages \ ReachablePackages : sizes[id] # Unknown

----------------------------------------------------------------------------
(* C4 *)

\* C4 as claimed: under a source root with every npm module resolving, the printed
\* count is the number of the other non-npm modules plus the number of indexed
\* packages, each package once however many npm modules resolve to it.
C4_CountsEachPackageOnce ==
    /\ TreeFinished
    /\ RootModule.kind \in {"esm", "json"}
    /\ \A s \in Modules(graph) :
        graph.slots[s].kind = "npm" => graph.slots[s].nv \in DOMAIN snapshot.packages
    => Reported("dependencies:")
       = Cardinality({s \in Modules(graph) :
                        s # RootModule.specifier /\ graph.slots[s].kind # "npm"})
         + Cardinality(ReachablePackages)

----------------------------------------------------------------------------
(* C5 *)

\* the report-fatal cases: not exactly one root, or a root that is no module
ReportFatal ==
    \/ Len(graph.roots) # 1
    \/ TryGet(graph, Resolve(graph, graph.roots[1])).kind \notin ModuleKinds

\* C5: in a report-fatal case the text report is one error line, with no summary
\* line and no tree node at any point; and the JSON report is what the augmentation
\* makes of the same document under any other list of roots.
C5_FatalIsOneErrorLine ==
    /\ mode = "text" /\ ReportFatal =>
        /\ tree = <<>> /\ stack = <<>>
        /\ \A i \in DOMAIN out : out[i].tag = "error:"
        /\ \A k \in DOMAIN reports :
            Len(reports[k]) = 1 /\ reports[k][1].tag = "error:"
    /\ mode = "json" =>
        \A k \in DOMAIN reports : \A roots \in {<<>>, <<SpecR>>, <<SpecR, SpecA>>} :
            \E order \in HashOrders(snapshot) :
                add_npm_packages_to_json([json EXCEPT !.roots = roots], snapshot, order)
                = [reports[k] EXCEPT !.roots = roots]

\* a text report of a graph with two roots has returned
C5_Witness ==
    mode = "text" /\ Len(graph.roots) = 2 /\ pc = "idle" /\ reports # <<>>

----------------------------------------------------------------------------
(* C6 *)

\* the serialized modules list is a single record of kind "npm"
SingleNpmRecord ==
    /\ "modules" \in DOMAIN json
    /\ Len(json.modules) = 1
    /\ Get(json.modules[1], "kind") = "npm"

\* C6: a modules list of one "npm" record keeps its length and its record; the record
\* gains npmPackage, the serialized id of the package of its (name, version), when
\* the specifier parses and the snapshot resolves it, and is unchanged otherwise.
C6_SingleNpmRecordAnnotated ==
    mode = "json" /\ SingleNpmRecord =>
        \A k \in DOMAIN reports :
            LET before == json.modules[1]
                after == reports[k].modules
                nv == NvReference_from_str(before.specifier)
            IN /\ Len(after) = 1
               /\ \A f \in DOMAIN before : after[1][f] = before[f]
               /\ IF nv # 0 /\ nv \in DOMAIN snapshot.packages
                  THEN /\ DOMAIN after[1] = DOMAIN before \cup {"npmPackage"}
                       /\ after[1].npmPackage = as_serialized(snapshot.packages[nv].id)
                  ELSE DOMAIN after[1] = DOMAIN before

\* the augmentation has annotated the single "npm" record of a document
C6_Witness ==
    /\ mode = "json"
    /\ SingleNpmRecord
    /\ reports # <<>>
    /\ "npmPackage" \in DOMAIN reports[1].modules[1]

----------------------------------------------------------------------------
(* C7 *)

\* the records of the list that are not of kind "npm" or "external", in order
Kept(modules) ==
    SelectSeq(modules, LAMBDA m : Get(m, "kind") \notin {"npm", "external"})

\* the snapshot resolves the dependency entry's specifier as a package requirement
ResolvesRequirement(dep) ==
    /\ "specifier" \in DOMAIN dep
    /\ ReqReference_from_str(dep.specifier) \in DOMAIN snapshot.package_reqs

\* the entry after the pass is the entry before it, with npmPackage exactly when the
\* snapshot resolves its specifier
DependencyAnnotated(before, after) ==
    /\ \A f \in DOMAIN before : after[f] = before[f]
    /\ IF ResolvesRequirement(before)
       THEN /\ DOMAIN after = DOMAIN before \cup {"npmPackage"}
            /\ after.npmPackage
               = as_serialized(
                    snapshot.package_reqs[ReqReference_from_str(before.specifier)])
       ELSE DOMAIN after = DOMAIN before

RecordAnnotated(before, after) ==
    /\ DOMAIN after = DOMAIN before
    /\ \A f \in DOMAIN before \ {"dependencies"} : after[f] = before[f]
    /\ "dependencies" \in DOMAIN before =>
        /\ Len(after.dependencies) = Len(before.dependencies)
        /\ \A d \in DOMAIN before.dependencies :
            DependencyAnnotated(before.dependencies[d], after.dependencies[d])

\* C7: when the modules list is not a single "npm" record, the list after the pass
\* is the records that are not of kind "npm" or "external", all of them and in their
\* order, each dependency entry with npmPackage exactly when the snapshot resolves
\* its specifier and otherwise unchanged.
C7_PlaceholdersRemoved ==
    mode = "json" /\ "modules" \in DOMAIN json /\ ~SingleNpmRecord =>
        \A k \in DOMAIN reports :
            LET kept == Kept(json.modules)
                after == reports[k].modules
            IN /\ Len(after) = Len(kept)
               /\ \A i \in DOMAIN kept : RecordAnnotated(kept[i], after[i])

\* the augmentation has removed a placeholder on each side of an ESM record and
\* annotated a dependency entry of that record
C7_Witness ==
    /\ mode = "json"
    /\ reports # <<>>
    /\ "modules" \in DOMAIN json
    /\ Len(json.modules) = 3
    /\ Get(json.modules[1], "kind") = "npm"
    /\ Get(json.modules[2], "kind") = "esm"
    /\ Get(json.modules[3], "kind") = "external"
    /\ Len(reports[1].modules) = 1
    /\ \E d \in DOMAIN reports[1].modules[1].dependencies :
        "npmPackage" \in DOMAIN reports[1].modules[1].dependencies[d]

----------------------------------------------------------------------------
(* C8 *)

\* the sequence of serialized ids lists the packages of the set in ascending order
ListsAscending(list, ids) ==
    /\ Len(list) = Cardinality(ids)
    /\ {list[i] : i \in DOMAIN list} = {as_serialized(id) : id \in ids}
    /\ \A i, j \in DOMAIN list :
        i < j => PackageOfKey(list[i]) <= PackageOfKey(list[j])

\* C8: the registry has exactly one entry per package id of the snapshot, with or
\* without a modules list in the document, and each entry holds the package's name,
\* its version and its dependency ids in ascending order.
C8_RegistryOfAllPackages ==
    mode = "json" =>
        \A k \in DOMAIN reports :
            LET registry == reports[k].npmPackages IN
            /\ DOMAIN registry = {as_serialized(id) : id \in DOMAIN snapshot.packages}
            /\ \A id \in DOMAIN snapshot.packages :
                LET entry == registry[as_serialized(id)] IN
                /\ entry.name = IdName[id]
                /\ entry.version = IdVersion[id]
                /\ ListsAscending(entry.dependencies,
                                  snapshot.packages[id].dependencies)

\* the augmentation has written the registry of a document without a modules list
\* for a snapshot with a package of two dependencies
C8_Witness ==
    /\ mode = "json"
    /\ reports # <<>>
    /\ "modules" \notin DOMAIN json
    /\ \E id \in DOMAIN snapshot.packages :
        Cardinality(snapshot.packages[id].dependencies) = 2

----------------------------------------------------------------------------
(* C9 *)

\* the child built for a resolution that is not None
ChildOf(i, r) ==
    LET node == tree[i] IN
    IF r.res.t = "err"
    THEN node.via = "resolve_error" /\ ChildrenIsEmpty(tree, i)
    ELSE CASE Target(r.res).kind \in ModuleKinds ->
                 /\ node.via = "module"
                 /\ node.text.s = Target(r.res).specifier
                 /\ node.text.style \in {"italic", "italic_gray"} <=> r.type_dep
           [] Target(r.res).kind = "error" ->
                 /\ node.via = "error"
                 /\ node.text.s = Resolve(graph, r.res.specifier)
                 /\ node.text.style = "red"
                 /\ ChildrenIsEmpty(tree, i)
           [] OTHER ->
                 /\ node.via = "missing"
                 /\ node.text.style = "red"
                 /\ ChildrenIsEmpty(tree, i)

\* node i is a source module shown with its children
IsExpandedSource(i) ==
    /\ tree[i].via = "module"
    /\ ~tree[i].text.star
    /\ tree[i].entity \in Modules(graph)
    /\ graph.slots[tree[i].entity].kind \in {"esm", "json"}

\* C9: in a finished tree the children of every expanded source module are, in
\* order, one per resolution of its edges that is not None (the type-declaration
\* edge, then the code and the type resolution of each dependency edge); an Err
\* resolution and an Ok resolution to an error or to no module give a childless
\* error leaf, and the children after it are there.
C9_EdgeFailuresAreLeaves ==
    TreeFinished =>
        \A i \in DOMAIN tree :
            IsExpandedSource(i) =>
                LET wanted == Resolutions(graph.slots[tree[i].entity])
                    children == Children(tree, i)
                IN /\ Len(children) = Len(wanted)
                   /\ \A k \in DOMAIN wanted : ChildOf(children[k], wanted[k])

\* a finished tree whose root has a failed code resolution and a lookup error, each
\* followed by the child of a later resolution
C9_Witness ==
    /\ TreeFinished
    /\ IsExpandedSource(1)
    /\ LET wanted == Resolutions(graph.slots[tree[1].entity]) IN
        /\ \E k \in 1..(Len(wanted) - 1) : wanted[k].res.t = "err"
        /\ \E k \in 1..(Len(wanted) - 1) :
            wanted[k].res.t = "ok" /\ Target(wanted[k].res).kind = "error"

----------------------------------------------------------------------------
(* C10 *)

\* C10: every report of the same graph and snapshot, text or JSON, is the first one
\* again; each write enters into_writer with an empty seen set; and the children of
\* a package are in ascending order of package id, whatever order the dependency map
\* yields its values in.
C10_SameReportEveryTime ==
    /\ \A k \in DOMAIN reports : reports[k] = reports[1]
    /\ pc = "into_writer" => seen = {}
    /\ \A i \in DOMAIN tree :
        LET children == Children(tree, i) IN
        \A a, b \in DOMAIN children :
            /\ a < b
            /\ tree[children[a]].via = "npm_dep"
            /\ tree[children[b]].via = "npm_dep"
            => PackageOfKey(tree[children[a]].entity)
               <= PackageOfKey(tree[children[b]].entity)

\* the second text report has returned, of a tree with a marked node and a package
\* with two dependencies
C10_Witness ==
    /\ TreeFinished
    /\ Len(reports) = 2
    /\ \E i \in DOMAIN tree : tree[i].text.star
    /\ \E i \in DOMAIN tree :
        LET children == Children(tree, i) IN
        /\ Len(children) = 2
        /\ tree[children[1]].via = "npm_dep"
        /\ tree[children[2]].via = "npm_dep"

----------------------------------------------------------------------------
(* C11 *)

\* the npm modules of the graph
NpmModules == {s \in Modules(graph) : graph.slots[s].kind = "npm"}

\* the npm modules whose (name, version) the snapshot does not resolve
UnresolvedModules ==
    {s \in NpmModules :
        ResolvePackageFromDenoModule(snapshot, graph.slots[s].nv) = NoPackage}

\* the graph without the npm modules the snapshot does not resolve
ResolvedGraph ==
    [graph EXCEPT !.slots =
        [s \in DOMAIN graph.slots |->
            IF s \in UnresolvedModules THEN Absent(s) ELSE graph.slots[s]]]

\* C11: the index NpmInfo::build returns is a closure: every id the resolved-id map
\* holds as a value is a key of the package map, and every dependency id of an indexed
\* package that the snapshot knows is a key of the package map; an npm module the
\* snapshot does not resolve leaves no entry, every npm module it resolves has its
\* entry, and the index is the one built without the unresolved modules.
C11_IndexIsClosed ==
    mode = "text" /\ pc # "idle" =>
        /\ \A nv \in DOMAIN npm_info.resolved_ids :
            npm_info.resolved_ids[nv] \in DOMAIN npm_info.packages
        /\ \A id \in DOMAIN npm_info.packages :
            \A dep \in npm_info.packages[id].dependencies :
                PackageFromId(snapshot, dep) # NoPackage
                    => dep \in DOMAIN npm_info.packages
        /\ \A s \in NpmModules :
            LET nv == graph.slots[s].nv IN
            IF s \in UnresolvedModules
            THEN nv \notin DOMAIN npm_info.resolved_ids
            ELSE /\ nv \in DOMAIN npm_info.resolved_ids
                 /\ npm_info.resolved_ids[nv]
                    = ResolvePackageFromDenoModule(snapshot, nv)
        /\ npm_info = NpmInfoBuild(ResolvedGraph, snapshot, sizes)

\* an index built for a graph with an npm module the snapshot does not resolve and one
\* it resolves, whose package has a dependency the snapshot knows, itself with a
\* dependency the snapshot does not know
C11_Witness ==
    /\ mode = "text" /\ pc # "idle"
    /\ UnresolvedModules # {}
    /\ \E id \in DOMAIN npm_info.packages :
        \E dep \in npm_info.packages[id].dependencies :
            /\ dep # id
            /\ dep \in DOMAIN npm_info.packages
            /\ \E far \in npm_info.packages[dep].dependencies :
                PackageFromId(snapshot, far) = NoPackage

----------------------------------------------------------------------------
(* C12 *)

\* C12: whenever into_writer computes the dependency count (the single root resolves
\* to a module), no step of ((module count - 1) + package count) - resolved-id count
\* is below zero, and the last step is the count it prints.
C12_CountNeverBelowZero ==
    /\ mode = "text"
    /\ pc # "idle"
    /\ Len(graph.roots) = 1
    /\ RootModule.kind \in ModuleKinds
    => /\ \A i \in 1..3 : dep_count_steps(graph, npm_info)[i] >= 0
       /\ dep_count_steps(graph, npm_info)[3] = dep_count(graph, npm_info)
       /\ pc = "build" =>
            out[CHOOSE i \in DOMAIN out : out[i].tag = "dependencies:"].n
            = dep_count_steps(graph, npm_info)[3]

\* a count computed for a root that is an npm module, with an npm module the snapshot
\* does not resolve and one it resolves, where the first step leaves exactly the
\* number of resolved ids
C12_Witness ==
    /\ mode = "text"
    /\ pc = "build"
    /\ RootModule.kind = "npm"
    /\ UnresolvedModules # {}
    /\ DOMAIN npm_info.resolved_ids # {}
    /\ dep_count_steps(graph, npm_info)[1] = Cardinality(DOMAIN npm_info.resolved_ids)

====
